---- MODULE Spec2Model ----
(***************************************************************************)
(* Model of src/app.py: a Streamlit script that resolves a Groq API key,   *)
(* and, when "Run demo" is pressed, runs three fixed prompt pipelines      *)
(* (run_sequential, run_hierarchical, run_swarm) through call_llm and      *)
(* renders their (label, text) lists side by side.                         *)
(*                                                                         *)
(* Text is a sequence of one-character strings; the literal pieces of the  *)
(* f-string templates are kept as single tokens.  Temperatures are tenths; *)
(* the em dash of the labels is written as a hyphen.                       *)
(***************************************************************************)
EXTENDS Integers, Sequences, FiniteSets, TLC

VARIABLES
    secretsKey,   \* st.secrets["GROQ_API_KEY"]: "absent", "empty" or "set"
    envKey,       \* os.environ["GROQ_API_KEY"]: "absent", "empty" or "set"
    pc,           \* position of the script run
    client,       \* the OpenAI client's api_key, "none" until line 27 ran
    model,        \* st.selectbox("Model", ...)
    question,     \* the question text of this script run
    v,            \* the pipeline functions' locals that are bound so far
    results,      \* seq / hier / swm of the driver block, once assigned
    calls,        \* every client.chat.completions.create of this script run
    rendered,     \* what render() wrote, one entry per column
    notices,      \* st.error / st.success / st.info messages of this run
    conc          \* a concurrent schedule of the independent calls

vars == <<secretsKey, envKey, pc, client, model, question, v, results, calls,
          rendered, notices, conc>>

----------------------------------------------------------------------------
(* Bounds and input domains *)

\* Most whitespace characters on either side of a raw completion text.
MaxPad == 2

Whitespace == {" ", "\n"}

Pad(n) == [i \in 1..n |-> IF i % 2 = 1 THEN " " ELSE "\n"]

\* message.content of the first choice, as the remote model may send it.
RawContents == { <<"x">>, Pad(MaxPad) \o <<"y", " ", "z">> \o Pad(MaxPad) }

\* What one client.chat.completions.create(...) round trip can do.
ApiOutcomes ==
    [kind : {"content"}, content : RawContents]
        \cup { [kind |-> "raise", content |-> <<>>],      \* create() raises
               [kind |-> "null", content |-> <<>>] }     \* content is None

\* The text_area / preset question; it is passed on as typed.
Questions == { <<"q">>, <<" ", "p", "?">> }

CredentialStates == {"absent", "empty", "set"}

----------------------------------------------------------------------------
(* Pure helpers *)

RECURSIVE LStrip(_)
LStrip(s) ==
    IF s = <<>> THEN <<>>
    ELSE IF Head(s) \in Whitespace THEN LStrip(Tail(s)) ELSE s

RECURSIVE RStrip(_)
RStrip(s) ==
    IF s = <<>> THEN <<>>
    ELSE IF s[Len(s)] \in Whitespace THEN RStrip(SubSeq(s, 1, Len(s) - 1))
         ELSE s

\* str.strip()
Strip(s) == RStrip(LStrip(s))

\* get_api_key(): the secret store wins whenever it has the entry at all.
get_api_key(secrets, env) ==
    IF secrets # "absent" THEN secrets ELSE env

\* A slip of the startup check: `API_KEY is None` lets the empty string by.
MissingKeyNoneOnly(key) == key = "absent"

\* `not API_KEY`: None and the empty string are falsy.
MissingKey(key) == key \in {"absent", "empty"}

MODEL_OPTIONS ==
    {"llama-3.1-70b-versatile", "llama-3.1-8b-instant", "mixtral-8x7b-32768"}

\* The completion calls in the order the driver block reaches them.
CallOrder ==
    <<"s1", "s2", "s3",
      "expert1", "expert2", "expert3", "manager",
      "a", "b", "c", "d", "agg">>

Roles == { CallOrder[i] : i \in 1..Len(CallOrder) }

\* The system prompt of each call, named by the marker it asks for.
SystemPrompt(role) ==
    CASE role = "s1" -> "FRAME"
      [] role = "s2" -> "TRADEOFFS"
      [] role = "s3" -> "DECISION"
      [] role = "expert1" -> "DOMAIN"
      [] role = "expert2" -> "RISKS"
      [] role = "expert3" -> "STAKEHOLDERS"
      [] role = "manager" -> "MANAGER"
      [] role = "a" -> "YES"
      [] role = "b" -> "NO"
      [] role = "c" -> "BOTH"
      [] role = "d" -> "IT DEPENDS"
      [] role = "agg" -> "Swarm Aggregator"

\* temperature=..., in tenths.
Temperature(role) ==
    CASE role \in {"s1", "s2", "s3", "manager", "agg"} -> 4
      [] role \in {"expert1", "expert2", "expert3"} -> 5
      [] role \in {"a", "b", "c", "d"} -> 7

\* A local that is read; the source only reads locals it has bound.
Unbound == <<"<unbound>">>
Local(locals, name) == IF name \in DOMAIN locals THEN locals[name] ELSE Unbound

\* A slip of run_sequential: the third call is handed s1 instead of s2.
SequentialInputSkips(role, q, locals) ==
    CASE role = "s1" -> q
      [] role = "s2" -> Local(locals, "s1")
      [] role = "s3" -> Local(locals, "s1")

\* user_prompt of the three run_sequential calls.
SequentialInput(role, q, locals) ==
    CASE role = "s1" -> q
      [] role = "s2" -> Local(locals, "s1")
      [] role = "s3" -> Local(locals, "s2")

\* A slip of run_hierarchical: the second expert is handed the first's text.
ExpertInputChained(role, q, locals) ==
    IF role = "expert2" THEN Local(locals, "expert1") ELSE q

\* user_prompt of the three expert calls of run_hierarchical.
ExpertInput(role, q, locals) == q

\* A slip of the manager template: expert2 and expert3 change places.
ManagerInputSwapped(q, e1, e2, e3) ==
    <<"Question:\n">> \o q \o <<"\n\nDomain:\n">> \o e1
        \o <<"\n\nRisks:\n">> \o e3 \o <<"\n\nStakeholders:\n">> \o e2

\* user_prompt of the manager call.
ManagerInput(q, e1, e2, e3) ==
    <<"Question:\n">> \o q \o <<"\n\nDomain:\n">> \o e1
        \o <<"\n\nRisks:\n">> \o e2 \o <<"\n\nStakeholders:\n">> \o e3

\* A slip of run_swarm: the fourth stance is handed the third's text.
StanceInputChained(role, q, locals) ==
    IF role = "d" THEN Local(locals, "c") ELSE q

\* user_prompt of the four stance calls of run_swarm.
StanceInput(role, q, locals) == q

\* A slip of the aggregator template: Agent 4 is left out.
AggregatorInputDropsLast(q, ta, tb, tc, td) ==
    <<"Question:\n">> \o q \o <<"\n\nAgent 1:\n">> \o ta
        \o <<"\n\nAgent 2:\n">> \o tb \o <<"\n\nAgent 3:\n">> \o tc

\* user_prompt of the aggregator call.
AggregatorInput(q, ta, tb, tc, td) ==
    <<"Question:\n">> \o q \o <<"\n\nAgent 1:\n">> \o ta
        \o <<"\n\nAgent 2:\n">> \o tb \o <<"\n\nAgent 3:\n">> \o tc
        \o <<"\n\nAgent 4:\n">> \o td

UserPrompt(role, q, locals) ==
    CASE role \in {"s1", "s2", "s3"} -> SequentialInput(role, q, locals)
      [] role \in {"expert1", "expert2", "expert3"} -> ExpertInput(role, q, locals)
      [] role = "manager" ->
            ManagerInput(q, Local(locals, "expert1"), Local(locals, "expert2"),
                         Local(locals, "expert3"))
      [] role \in {"a", "b", "c", "d"} -> StanceInput(role, q, locals)
      [] role = "agg" ->
            AggregatorInput(q, Local(locals, "a"), Local(locals, "b"),
                            Local(locals, "c"), Local(locals, "d"))

\* The list run_sequential returns.
SequentialResult(locals) ==
    << <<"Step 1 - Frame dilemma", Local(locals, "s1")>>,
       <<"Step 2 - Pros vs Cons", Local(locals, "s2")>>,
       <<"Final - Decision", Local(locals, "s3")>> >>

\* A slip of run_hierarchical's return: the manager pair comes first.
HierarchicalResultManagerFirst(locals) ==
    << <<"Manager - Final synthesis", Local(locals, "manager")>>,
       <<"Expert - Domain", Local(locals, "expert1")>>,
       <<"Expert - Risks & Constraints", Local(locals, "expert2")>>,
       <<"Expert - Stakeholders & Impact", Local(locals, "expert3")>> >>

\* The list run_hierarchical returns.  Line 120 of the source breaks off
\* after `man`; `manager` is the only name in scope that completes it.
HierarchicalResult(locals) ==
    << <<"Expert - Domain", Local(locals, "expert1")>>,
       <<"Expert - Risks & Constraints", Local(locals, "expert2")>>,
       <<"Expert - Stakeholders & Impact", Local(locals, "expert3")>>,
       <<"Manager - Final synthesis", Local(locals, "manager")>> >>

\* The list run_swarm returns.
SwarmResult(locals) ==
    << <<"Agent 1 - Enthusiast (YES)", Local(locals, "a")>>,
       <<"Agent 2 - Purist (NO)", Local(locals, "b")>>,
       <<"Agent 3 - Diplomat (BOTH)", Local(locals, "c")>>,
       <<"Agent 4 - Pragmatist (DEPENDS)", Local(locals, "d")>>,
       <<"Swarm - Aggregated view", Local(locals, "agg")>> >>

\* call_llm's return value for a round trip that does not raise.
call_llm_text(outcome) == Strip(outcome.content)

\* Whether call_llm raises: create() raised, or None has no .strip().
call_llm_raises(outcome) == outcome.kind \in {"raise", "null"}

\* The request call_llm sends: lines 45-52.
Request(role, m, q, locals) ==
    [role |-> role, model |-> m, system |-> SystemPrompt(role),
     user |-> UserPrompt(role, q, locals), temperature |-> Temperature(role)]

\* A request together with what came of it: line 53.
Completed(req, outcome) ==
    [role |-> req.role, model |-> req.model, system |-> req.system,
     user |-> req.user, temperature |-> req.temperature,
     raw |-> outcome.content, raised |-> call_llm_raises(outcome),
     text |-> IF call_llm_raises(outcome) THEN <<>> ELSE call_llm_text(outcome)]

CallRecord(role, m, q, locals, outcome) ==
    Completed(Request(role, m, q, locals), outcome)

\* render(col, title, items): the steps shown and the final output.
render(title, items, steps) ==
    [title |-> title,
     steps |-> IF steps THEN SubSeq(items, 1, Len(items) - 1) ELSE <<>>,
     final |-> items[Len(items)][2]]

----------------------------------------------------------------------------
(* The script run *)

NoLocals == [name \in {} |-> <<>>]
NoResults == [name \in {} |-> <<>>]
ConcIdle ==
    [phase |-> "off", entry |-> "none", reordered |-> FALSE, v |-> NoLocals, inflight |-> NoLocals, raised |-> {},
     calls |-> NoLocals, results |-> NoResults]

Init ==
    /\ secretsKey \in CredentialStates
    /\ envKey \in CredentialStates
    /\ pc = "start"
    /\ client = "none"
    /\ model = "unset"
    /\ question = <<>>
    /\ v = NoLocals
    /\ results = NoResults
    /\ calls = <<>>
    /\ rendered = <<>>
    /\ notices = <<>>
    /\ conc = ConcIdle

\* Lines 21-30: resolve the key; without one, report and st.stop().
Startup ==
    /\ pc = "start"
    /\ LET API_KEY == get_api_key(secretsKey, envKey) IN
         IF MissingKey(API_KEY)
         THEN /\ notices' = Append(notices, "Missing GROQ_API_KEY")
              /\ pc' = "stopped"
              /\ UNCHANGED client
         ELSE /\ client' = API_KEY
              /\ pc' = "ui"
              /\ UNCHANGED notices
    /\ UNCHANGED <<secretsKey, envKey, model, question, v,
                   results, calls, rendered, conc>>

\* Lines 171-199: the widgets; the block below runs only when the button
\* was pressed in this script run.
ReadWidgets ==
    /\ pc = "ui"
    /\ \E m \in MODEL_OPTIONS, q \in Questions, run \in BOOLEAN :
         /\ model' = m
         /\ question' = q
         /\ pc' = IF run THEN "s1" ELSE "idle"
    /\ UNCHANGED <<secretsKey, envKey, client, v, results, calls, rendered,
                   notices, conc>>

\* A slip of the driver: the call after "b" is skipped.
PcAfterReturnSkips(role) ==
    IF role = "agg" THEN "render"
    ELSE IF role = "b" THEN "d"
    ELSE CallOrder[(CHOOSE i \in 1..Len(CallOrder) : CallOrder[i] = role) + 1]

\* Where the driver goes when a call returns: the next call, or the
\* rendering once run_swarm has returned.
PcAfterReturn(role) ==
    IF role = "agg" THEN "render"
    ELSE CallOrder[(CHOOSE i \in 1..Len(CallOrder) : CallOrder[i] = role) + 1]

\* A slip of the driver: the exception is swallowed and rendering goes on.
PcAfterRaiseRenders(role) == "render"

\* A slip of the driver: the failed call is tried again.
PcAfterRaiseRetries(role) == role

\* Where the driver goes when a call raises: nothing in the pipelines
\* catches, so the except clause of the driver block (lines 234-236).
PcAfterRaise(role) == "failed"

\* The driver's assignments seq = ..., hier = ..., swm = ... once the last
\* call of a pipeline has returned.
ResultsAfter(role, res, locals) ==
    CASE role = "s3" -> ("seq" :> SequentialResult(locals)) @@ res
      [] role = "manager" -> ("hier" :> HierarchicalResult(locals)) @@ res
      [] role = "agg" -> ("swm" :> SwarmResult(locals)) @@ res
      [] OTHER -> res

\* One call_llm(...) statement of a pipeline, reached by the driver.
Call(role) ==
    /\ pc = role
    /\ \E outcome \in ApiOutcomes :
         LET rec == CallRecord(role, model, question, v, outcome)
             bound == (role :> rec.text) @@ v
         IN  /\ calls' = Append(calls, rec)
             /\ IF rec.raised
                THEN /\ pc' = PcAfterRaise(role)
                     /\ notices' = IF PcAfterRaise(role) = "failed"
                                   THEN Append(notices, "Run failed")
                                   ELSE notices
                     /\ UNCHANGED <<v, results>>
                ELSE /\ v' = bound
                     /\ results' = ResultsAfter(role, results, bound)
                     /\ pc' = PcAfterReturn(role)
                     /\ UNCHANGED notices
    /\ UNCHANGED <<secretsKey, envKey, client, model, question, rendered,
                   conc>>

\* run_sequential, lines 58-84.
SequentialCall ==
    /\ pc \in {"s1", "s2", "s3"}
    /\ Call(pc)

\* run_hierarchical, lines 87-120.
HierarchicalCall ==
    /\ pc \in {"expert1", "expert2", "expert3", "manager"}
    /\ Call(pc)

\* run_swarm, lines 123-165.
SwarmCall ==
    /\ pc \in {"a", "b", "c", "d", "agg"}
    /\ Call(pc)

\* What the driver block hands to render(), lines 223-225.
RenderPlan(res) ==
    << <<"Sequential", res["seq"]>>, <<"Hierarchical", res["hier"]>>,
       <<"Swarm", res["swm"]>> >>

\* Lines 210-232: st.success, then the three columns.  show_steps is the
\* "Show intermediate steps" toggle of line 195, which only render() reads.
RenderAll ==
    /\ pc = "render"
    /\ notices' = Append(notices, "Completed")
    /\ \E show_steps \in BOOLEAN :
         rendered' = [i \in 1..Len(RenderPlan(results)) |->
                        render(RenderPlan(results)[i][1],
                               RenderPlan(results)[i][2], show_steps)]
    /\ pc' = "done"
    /\ UNCHANGED <<secretsKey, envKey, client, model, question, v, results,
                   calls, conc>>

\* Streamlit runs the script again from the top on the next interaction;
\* nothing but the credential stores survives.
Rerun ==
    /\ pc \in {"stopped", "idle", "done", "failed"}
    /\ pc' = "start"
    /\ client' = "none"
    /\ model' = "unset"
    /\ question' = <<>>
    /\ v' = NoLocals
    /\ results' = NoResults
    /\ calls' = <<>>
    /\ rendered' = <<>>
    /\ notices' = <<>>
    /\ UNCHANGED <<secretsKey, envKey, conc>>

Next ==
    \/ Startup
    \/ ReadWidgets
    \/ SequentialCall
    \/ HierarchicalCall
    \/ SwarmCall
    \/ RenderAll
    \/ Rerun

Spec == Init /\ [][Next]_vars

----------------------------------------------------------------------------
(* The independent calls of run_hierarchical and run_swarm under a         *)
(* concurrent schedule: each expert or stance request is issued with the   *)
(* prompt the source builds for it and answered in any order, and the      *)
(* reducing call follows the join.  The run of the source just before it   *)
(* fixes the remote model: a request it already answered is answered the   *)
(* same way again.                                                         *)

\* The calls of the sequential run that carried this very request.
Answered(ref, req) ==
    { i \in 1..Len(ref) :
        /\ ref[i].model = req.model
        /\ ref[i].system = req.system
        /\ ref[i].user = req.user
        /\ ref[i].temperature = req.temperature }

\* What the remote model can answer to req, given what it answered before.
Answers(ref, req) ==
    LET all == { Completed(req, outcome) : outcome \in ApiOutcomes } IN
    IF Answered(ref, req) = {} THEN all
    ELSE { r \in all : \E i \in Answered(ref, req) :
                          r.raised = ref[i].raised /\ r.text = ref[i].text }

\* The independent calls of a fan-out phase, and the call that reduces them.
Group(phase) ==
    IF phase = "experts" THEN {"expert1", "expert2", "expert3"}
    ELSE {"a", "b", "c", "d"}

Reducer(phase) == IF phase = "experts" THEN "manager" ELSE "agg"

\* The calls of the pipeline that is entered at a given call.
PipelineRoles(entry) == Group(IF entry = "expert1" THEN "experts" ELSE "stances")
                          \cup {Reducer(IF entry = "expert1" THEN "experts"
                                        ELSE "stances")}

\* The driver's state after the first n calls of CallOrder, each answering "x".
RECURSIVE AfterCalls(_, _, _)
AfterCalls(n, m, q) ==
    IF n = 0 THEN [calls |-> <<>>, v |-> NoLocals, results |-> NoResults]
    ELSE LET before == AfterCalls(n - 1, m, q)
             rec == CallRecord(CallOrder[n], m, q, before.v,
                               [kind |-> "content", content |-> <<"x">>])
             bound == (CallOrder[n] :> rec.text) @@ before.v
         IN  [calls |-> Append(before.calls, rec), v |-> bound,
              results |-> ResultsAfter(CallOrder[n], before.results, bound)]

\* run_hierarchical, or run_swarm, is about to be entered by a driver whose
\* earlier calls all answered "x".
InitConc ==
    /\ secretsKey = "set"
    /\ envKey = "absent"
    /\ client = "set"
    /\ model \in MODEL_OPTIONS
    /\ question \in Questions
    /\ \E n \in {i \in 1..Len(CallOrder) : CallOrder[i] \in {"s3", "manager"}} :
         /\ calls = AfterCalls(n, model, question).calls
         /\ v = AfterCalls(n, model, question).v
         /\ results = AfterCalls(n, model, question).results
         /\ pc = PcAfterReturn(CallOrder[n])
         /\ conc = [ConcIdle EXCEPT !.entry = pc]
    /\ rendered = <<>>
    /\ notices = <<>>

\* The source's own, sequential, run of the pipeline that was entered.
ReferenceCall ==
    /\ conc.phase = "off"
    /\ pc \in PipelineRoles(conc.entry)
    /\ Call(pc)

\* The concurrent schedule starts once the sequential run of the pipeline
\* has returned or raised.
ConcBegin ==
    /\ pc \in {"failed", PcAfterReturn(Reducer(IF conc.entry = "expert1"
                                               THEN "experts" ELSE "stances"))}
    /\ conc.phase = "off"
    /\ conc' = [conc EXCEPT !.phase = IF conc.entry = "expert1" THEN "experts"
                                      ELSE "stances"]
    /\ UNCHANGED <<secretsKey, envKey, pc, client, model, question, v,
                   results, calls, rendered, notices>>

\* Position of a call in the source's order.
OrderOf(role) == CHOOSE i \in 1..Len(CallOrder) : CallOrder[i] = role

\* Whether issuing role now departs from the source's order: a call of its
\* group that the source makes first has not returned yet.
IssuedEarly(role, c) ==
    \E other \in Group(c.phase) :
        /\ OrderOf(other) < OrderOf(role)
        /\ other \notin DOMAIN c.v \cup c.raised

\* An expert or stance request goes out, built from the locals bound so far.
ConcIssue ==
    /\ conc.phase \in {"experts", "stances"}
    /\ \E role \in Group(conc.phase) :
         /\ role \notin DOMAIN conc.v \cup DOMAIN conc.inflight \cup conc.raised
         /\ conc' = [conc EXCEPT
                        !.inflight =
                            (role :> Request(role, model, question, conc.v)) @@ @,
                        !.reordered = @ \/ IssuedEarly(role, conc)]
    /\ UNCHANGED <<secretsKey, envKey, pc, client, model, question, v,
                   results, calls, rendered, notices>>

\* A request in flight is answered.
ConcReturn ==
    /\ \E role \in DOMAIN conc.inflight :
         \E rec \in Answers(calls, conc.inflight[role]) :
           conc' = [conc EXCEPT
                      !.inflight = [r \in DOMAIN @ \ {role} |-> @[r]],
                      !.calls = (rec.role :> rec) @@ @,
                      !.raised = IF rec.raised THEN @ \cup {role} ELSE @,
                      !.v = IF rec.raised THEN @ ELSE (role :> rec.text) @@ @]
    /\ UNCHANGED <<secretsKey, envKey, pc, client, model, question, v,
                   results, calls, rendered, notices>>

\* The join: every independent call has returned or raised.
ConcJoin ==
    /\ conc.phase \in {"experts", "stances"}
    /\ Group(conc.phase) \subseteq DOMAIN conc.v \cup conc.raised
    /\ conc' = [conc EXCEPT !.phase =
                   IF Group(conc.phase) \cap conc.raised # {} THEN "failed"
                   ELSE Reducer(conc.phase)]
    /\ UNCHANGED <<secretsKey, envKey, pc, client, model, question, v,
                   results, calls, rendered, notices>>

\* The manager or aggregator call, after the join.
ConcReduce ==
    /\ conc.phase \in {"manager", "agg"}
    /\ \E rec \in Answers(calls, Request(conc.phase, model, question, conc.v)) :
         LET bound == (conc.phase :> rec.text) @@ conc.v IN
         conc' = [conc EXCEPT
                    !.calls = (rec.role :> rec) @@ @,
                    !.raised = IF rec.raised THEN @ \cup {conc.phase} ELSE @,
                    !.v = IF rec.raised THEN @ ELSE bound,
                    !.results = IF rec.raised THEN @
                                ELSE ResultsAfter(conc.phase, @, bound),
                    !.phase = IF rec.raised THEN "failed" ELSE "done"]
    /\ UNCHANGED <<secretsKey, envKey, pc, client, model, question, v,
                   results, calls, rendered, notices>>

NextConc ==
    \/ ReferenceCall
    \/ ConcBegin
    \/ ConcIssue
    \/ ConcReturn
    \/ ConcJoin
    \/ ConcReduce

SpecConc == InitConc /\ [][NextConc]_vars

----------------------------------------------------------------------------
(* Properties *)

\* The calls of this script run that carried a role.
Issued(role) == { i \in 1..Len(calls) : calls[i].role = role }

\* The one call that carried a role, once it was issued.
TheCall(role) == calls[CHOOSE i \in Issued(role) : TRUE]

\* t is raw without its leading and trailing whitespace.
IsTrimOf(t, raw) ==
    /\ Len(t) <= Len(raw)
    /\ t # <<>> => (t[1] \notin Whitespace /\ t[Len(t)] \notin Whitespace)
    /\ \E lead \in 0..(Len(raw) - Len(t)) :
          /\ t = SubSeq(raw, lead + 1, lead + Len(t))
          /\ \A k \in 1..Len(raw) :
                (k <= lead \/ k > lead + Len(t)) => raw[k] \in Whitespace

\* The pipeline a call belongs to.
PipelineOf(role) ==
    CASE role \in {"s1", "s2", "s3"} -> "seq"
      [] role \in {"expert1", "expert2", "expert3", "manager"} -> "hier"
      [] role \in {"a", "b", "c", "d", "agg"} -> "swm"

\* The calls of a pipeline, intermediate ones first, the synthesis call last.
RolesOf(pipeline) ==
    CASE pipeline = "seq" -> <<"s1", "s2", "s3">>
      [] pipeline = "hier" -> <<"expert1", "expert2", "expert3", "manager">>
      [] pipeline = "swm" -> <<"a", "b", "c", "d", "agg">>

\* The calls of this script run that a pipeline made, in the order made.
CallsOf(pipeline) ==
    SelectSeq(calls, LAMBDA c : PipelineOf(c.role) = pipeline)

\* The label the source gives the pair of a role.
LabelOf(role) ==
    CASE role = "s1" -> "Step 1 - Frame dilemma"
      [] role = "s2" -> "Step 2 - Pros vs Cons"
      [] role = "s3" -> "Final - Decision"
      [] role = "expert1" -> "Expert - Domain"
      [] role = "expert2" -> "Expert - Risks & Constraints"
      [] role = "expert3" -> "Expert - Stakeholders & Impact"
      [] role = "manager" -> "Manager - Final synthesis"
      [] role = "a" -> "Agent 1 - Enthusiast (YES)"
      [] role = "b" -> "Agent 2 - Purist (NO)"
      [] role = "c" -> "Agent 3 - Diplomat (BOTH)"
      [] role = "d" -> "Agent 4 - Pragmatist (DEPENDS)"
      [] role = "agg" -> "Swarm - Aggregated view"

\* C1: when a completion call raises, the run yields no partial result: the
\* driver is in its except clause, the pipeline that made the call has no
\* result list, and nothing (not even the result of a pipeline that had
\* already returned) was rendered or reported as completed.
C1_NoPartialResult ==
    \A i \in 1..Len(calls) :
        calls[i].raised =>
            /\ pc = "failed"
            /\ PipelineOf(calls[i].role) \notin DOMAIN results
            /\ rendered = <<>>
            /\ \A n \in 1..Len(notices) : notices[n] # "Completed"
            /\ \E n \in 1..Len(notices) : notices[n] = "Run failed"

\* C1 happens: run_swarm raised after the other two pipelines had returned.
C1_Witness ==
    /\ pc = "failed"
    /\ DOMAIN results = {"seq", "hier"}
    /\ rendered = <<>>

\* C2: in run_sequential the first call is handed the question, the second
\* call is handed the first call's output with its outer whitespace removed,
\* and the third call the second call's output likewise.
C2_SequentialChain ==
    LET made == CallsOf("seq") IN
    \A n \in 1..Len(made) :
        /\ n <= 3
        /\ made[n].role = RolesOf("seq")[n]
        /\ n = 1 => made[n].user = question
        /\ n > 1 => /\ ~made[n - 1].raised
                    /\ made[n].user = made[n - 1].text
                    /\ IsTrimOf(made[n].user, made[n - 1].raw)

\* C2 happens: the third call was made after two different raw outputs, the
\* first of them padded with whitespace.
C2_Witness ==
    /\ Issued("s3") # {}
    /\ TheCall("s1").raw # TheCall("s1").text
    /\ TheCall("s1").text # TheCall("s2").text
    /\ TheCall("s3").user # question

\* C3: every expert call and every stance call is handed the question as
\* typed, whatever the calls before it returned.
C3_IndependentInputs ==
    \A i \in 1..Len(calls) :
        calls[i].role \in {"expert1", "expert2", "expert3", "a", "b", "c", "d"}
            => calls[i].user = question

\* C3 happens: the last stance call was made after experts and stances had
\* returned different texts, on a question that starts with whitespace.
C3_Witness ==
    /\ Issued("d") # {}
    /\ TheCall("expert1").text # TheCall("expert2").text
    /\ TheCall("a").text # TheCall("c").text
    /\ question[1] \in Whitespace

\* C4: the manager call comes after the three expert calls have returned,
\* and its input is the question followed by the three expert outputs under
\* Domain, Risks and Stakeholders, in that order.
C4_ManagerInput ==
    LET made == CallsOf("hier") IN
    \A n \in 1..Len(made) :
        made[n].role = "manager" =>
            /\ n = 4
            /\ \A k \in 1..3 : made[k].role = RolesOf("hier")[k]
                                  /\ ~made[k].raised
            /\ made[n].user =
                  <<"Question:\n">> \o question
                    \o <<"\n\nDomain:\n">> \o made[1].text
                    \o <<"\n\nRisks:\n">> \o made[2].text
                    \o <<"\n\nStakeholders:\n">> \o made[3].text

\* C4 happens: the manager call was made on three expert outputs that are
\* not all the same.
C4_Witness ==
    /\ Issued("manager") # {}
    /\ TheCall("expert2").text # TheCall("expert3").text
    /\ TheCall("expert1").text # TheCall("expert2").text

\* C5: the aggregator call comes after the four stance calls have returned,
\* and its input is the question followed by the four stance outputs under
\* Agent 1 to Agent 4, in that order.
C5_AggregatorInput ==
    LET made == CallsOf("swm") IN
    \A n \in 1..Len(made) :
        made[n].role = "agg" =>
            /\ n = 5
            /\ \A k \in 1..4 : made[k].role = RolesOf("swm")[k]
                                  /\ ~made[k].raised
            /\ made[n].user =
                  <<"Question:\n">> \o question
                    \o <<"\n\nAgent 1:\n">> \o made[1].text
                    \o <<"\n\nAgent 2:\n">> \o made[2].text
                    \o <<"\n\nAgent 3:\n">> \o made[3].text
                    \o <<"\n\nAgent 4:\n">> \o made[4].text

\* C5 happens: the aggregator call was made on stance outputs that differ.
C5_Witness ==
    /\ Issued("agg") # {}
    /\ TheCall("a").text # TheCall("b").text
    /\ TheCall("c").text # TheCall("d").text

\* C6: in every pipeline result the last pair carries the text of the
\* pipeline's synthesis call (decision, manager, aggregator) and the pairs
\* before it carry, one for one and in call order, the texts of the
\* pipeline's intermediate calls, each under its role's label.
C6_ResultShape ==
    \A p \in DOMAIN results :
        LET made == CallsOf(p) IN
        /\ Len(results[p]) = Len(made)
        /\ Len(made) = Len(RolesOf(p))
        /\ \A n \in 1..Len(made) :
              /\ made[n].role = RolesOf(p)[n]
              /\ ~made[n].raised
              /\ results[p][n] = <<LabelOf(made[n].role), made[n].text>>

\* C6 happens: all three pipelines returned, each with a synthesis text that
\* differs from its first intermediate text.
C6_Witness ==
    /\ DOMAIN results = {"seq", "hier", "swm"}
    /\ TheCall("s3").text # TheCall("s1").text
    /\ TheCall("manager").text # TheCall("expert1").text
    /\ TheCall("agg").text # TheCall("a").text

\* C7: a run in which no call fails returns 3, 4 and 5 pairs, 12 in all,
\* from 12 completion calls, one per role and none repeated.
C7_TwelvePairs ==
    pc \in {"render", "done"} =>
        /\ DOMAIN results = {"seq", "hier", "swm"}
        /\ Len(results["seq"]) = 3
        /\ Len(results["hier"]) = 4
        /\ Len(results["swm"]) = 5
        /\ Len(calls) = 12
        /\ \A r \in Roles : Cardinality(Issued(r)) = 1

\* C7 happens: a run completed and was rendered.
C7_Witness ==
    /\ pc = "done"
    /\ Len(rendered) = 3
    /\ Len(calls) = 12

\* C8: with no credential in the secret store and none in the environment,
\* the script never gets past the startup check: no client, no completion
\* call, no pipeline.
NoCredential ==
    /\ secretsKey \in {"absent", "empty"}
    /\ envKey \in {"absent", "empty"}

C8_NoCallWithoutCredential ==
    NoCredential =>
        /\ pc \in {"start", "stopped"}
        /\ client = "none"
        /\ calls = <<>>
        /\ results = NoResults

\* C8 happens: the startup check stopped a script run whose secret store
\* holds an empty entry.
C8_Witness ==
    /\ NoCredential
    /\ secretsKey = "empty"
    /\ pc = "stopped"
    /\ notices = <<"Missing GROQ_API_KEY">>

\* C9: a call that raises is the last call of its run and leaves the run in
\* its reported-failure state; the calls of a run follow the source's order,
\* so none is retried or made twice.
C9_FailureAborts ==
    /\ \A i \in 1..Len(calls) :
          /\ i <= Len(CallOrder)
          /\ calls[i].role = CallOrder[i]
          /\ calls[i].raised =>
                /\ i = Len(calls)
                /\ pc = "failed"
                /\ notices = <<"Run failed">>
    /\ pc = "failed" => (calls # <<>> /\ calls[Len(calls)].raised)

\* C9 happens: the second expert call raised, with seven calls still to come.
C9_Witness ==
    /\ pc = "failed"
    /\ Len(calls) = 5
    /\ calls[5].raised

\* C10: once the concurrent schedule of a pipeline has ended, it failed
\* exactly if the source's sequential run of that pipeline failed, it
\* returned the same result list, and its reducing call was handed the same
\* input.
C10_ConcurrentSameResult ==
    conc.phase \in {"done", "failed"} =>
        LET p == PipelineOf(conc.entry)
            red == RolesOf(p)[Len(RolesOf(p))]
        IN  /\ (conc.phase = "failed") = (pc = "failed")
            /\ (p \in DOMAIN conc.results) = (p \in DOMAIN results)
            /\ p \in DOMAIN results => conc.results[p] = results[p]
            /\ (red \in DOMAIN conc.calls) = (Issued(red) # {})
            /\ Issued(red) # {} =>
                  /\ conc.calls[red].user = TheCall(red).user
                  /\ conc.calls[red].text = TheCall(red).text

\* C10 happens: run_swarm's stances were issued out of the source's order,
\* returned different texts, and the aggregator returned.
C10_Witness ==
    /\ conc.phase = "done"
    /\ conc.entry = "a"
    /\ conc.reordered
    /\ conc.v["a"] # conc.v["d"]

====
